---- MODULE Spec2Model ----
(***************************************************************************)
(* A model of generate_arcade_files.py: the walk over the working          *)
(* directory, the name / existence / suffix filters, the UTF-8 read with   *)
(* the Latin-1 retry, and the blocks written to arcade_project_complete.txt*)
(*                                                                         *)
(* Names are sequences of tokens, so that "node_modules_backup" is the     *)
(* two tokens <<"node_modules", "_backup">>: a substring test and a        *)
(* full-name test differ on it.  File contents are sequences of bytes,     *)
(* texts are sequences of characters; both are written as strings.         *)
(***************************************************************************)
EXTENDS Integers, Sequences, FiniteSets, TLC

\* ------------------------------------------------------------------ bounds
MaxFiles == 2
MaxRuns == 2
MaxBuf == 2
MaxRemovals == 1
MaxSinkFaults == 1

\* ------------------------------------------------------- sequence helpers
RECURSIVE Flatten(_)
FlattenOf(ss) ==
  IF Len(ss) = 0 THEN <<>>
  ELSE IF Len(ss) = 1 THEN ss[1]
  ELSE Flatten(SubSeq(ss, 1, Len(ss) \div 2))
         \o Flatten(SubSeq(ss, Len(ss) \div 2 + 1, Len(ss)))

\* The concatenation of a sequence of sequences.
Flatten(ss) == CHOOSE r \in {FlattenOf(x) : x \in {ss}} : TRUE

NotEmpty(c) == c # ""

Range(s) == {s[i] : i \in 1..Len(s)}

\* ------------------------------------------------------ the program's names
output_file == <<"arcade_project_complete", ".txt">>

NodeModules == <<"node_modules">>

PackageLock == <<"package-lock", ".json">>

BinarySuffixes_NoPng == {".jpg", ".jpeg", ".gif", ".ico", ".pem"}

BinarySuffixes == {".png", ".jpg", ".jpeg", ".gif", ".ico", ".pem"}

\* Tokens that start with a dot and hold no other dot.
DotTokens == {".txt", ".js", ".json", ".png", ".PNG", ".jpg", ".jpeg", ".gif", ".ico", ".pem"}

\* ------------------------------------------------------------ the file tree
\* The files a tree is drawn from.  Id 0 is the output file itself.  readable: the
\* file's mode lets the user read it; searchable: the mode of its directory lets
\* the user reach the files in it (a directory without it can still be listed).
Cand ==
  << [dir |-> <<>>, name |-> <<"a", ".txt">>, bytes |-> <<"h">>, readable |-> TRUE, searchable |-> TRUE],
     [dir |-> <<>>, name |-> <<"l", ".txt">>, bytes |-> <<"xE9">>, readable |-> TRUE, searchable |-> TRUE],
     [dir |-> <<>>, name |-> <<"w", ".txt">>, bytes |-> <<"xE9", "CR", "LF">>, readable |-> TRUE, searchable |-> TRUE],
     [dir |-> <<>>, name |-> <<"secret", ".txt">>, bytes |-> <<"h">>, readable |-> FALSE, searchable |-> TRUE],
     [dir |-> <<>>, name |-> <<"logo", ".png">>, bytes |-> <<"xE9">>, readable |-> TRUE, searchable |-> TRUE],
     [dir |-> <<>>, name |-> <<"B", ".PNG">>, bytes |-> <<"h">>, readable |-> TRUE, searchable |-> TRUE],
     [dir |-> <<>>, name |-> PackageLock, bytes |-> <<"h">>, readable |-> TRUE, searchable |-> TRUE],
     [dir |-> << <<"src">> >>, name |-> <<"b", ".js">>, bytes |-> <<"xC3", "xA9", "LF">>, readable |-> TRUE, searchable |-> TRUE],
     [dir |-> << NodeModules >>, name |-> <<"x", ".js">>, bytes |-> <<"h">>, readable |-> TRUE, searchable |-> TRUE],
     [dir |-> << <<"src">>, NodeModules >>, name |-> <<"y", ".js">>, bytes |-> <<"h">>, readable |-> TRUE, searchable |-> TRUE],
     [dir |-> << <<"node_modules", "_backup">> >>, name |-> <<"a", ".txt">>, bytes |-> <<"h">>, readable |-> TRUE, searchable |-> TRUE],
     [dir |-> << <<"my_", "node_modules">>, <<"src">> >>, name |-> <<"b", ".js">>, bytes |-> <<"h">>, readable |-> TRUE, searchable |-> TRUE],
     [dir |-> << <<"locked">> >>, name |-> <<"a", ".txt">>, bytes |-> <<"h">>, readable |-> TRUE, searchable |-> FALSE] >>

OutId == 0

CandIds == 1..Len(Cand)

FileIds == CandIds \cup {OutId}

\* The order in which a directory listing returns its entries.
ListOrder == <<1, 0, 2, 3, 4, 5, 6, 7, 8, 9, 10, 11, 12, 13>>

DirOf(f) == IF f = OutId THEN <<>> ELSE Cand[f].dir

NameOf(f) == IF f = OutId THEN output_file ELSE Cand[f].name

\* ------------------------------------------------------------------- paths
\* str(Path(root) / file) relative to '.', as a sequence of tokens.
RECURSIVE JoinDirs(_)
JoinDirs(d) == IF d = <<>> THEN <<>> ELSE Head(d) \o <<"/">> \o JoinDirs(Tail(d))

RelPath(f) == JoinDirs(DirOf(f)) \o NameOf(f)

\* The string os.walk gives as root for directory d: "." or "./x/y".
RootString(d) == <<".">> \o Flatten([i \in 1..Len(d) |-> <<"/">> \o d[i]])

\* 'node_modules' in root: a substring test on the whole root string.
NodeModulesInRoot(d) == \E i \in 1..Len(RootString(d)) : RootString(d)[i] = "node_modules"

\* PurePath.suffix: the last dot-component of the name, unless the name starts with it.
Suffix(name) ==
  IF Len(name) >= 2 /\ name[Len(name)] \in DotTokens THEN name[Len(name)] ELSE ""

\* ------------------------------------------------------ encoding / decoding
LeadBytes == {"xC2", "xC3"}

ContinuationBytes == {"x82", "x83", "xA9"}

\* "xE9" opens a three-byte sequence, which no file of the model completes.
HighBytes == LeadBytes \cup ContinuationBytes \cup {"xE9"}

\* The two-byte UTF-8 sequences of the alphabet.
Utf8Pair(b1, b2) ==
  CASE b1 = "xC3" /\ b2 = "xA9" -> "e-acute"
    [] b1 = "xC3" /\ b2 = "x83" -> "A-tilde"
    [] b1 = "xC2" /\ b2 = "xA9" -> "copyright"
    [] b1 = "xC3" /\ b2 = "x82" -> "A-circumflex"
    [] b1 = "xC2" /\ b2 = "x83" -> "U+0083"
    [] b1 = "xC2" /\ b2 = "x82" -> "U+0082"
    [] OTHER -> ""

\* bytes.decode('utf-8'): [ok, text]; ok is FALSE on UnicodeDecodeError.  A lead byte
\* needs its continuation byte, a continuation byte its lead byte.
Utf8DecodeOf(bs) ==
  LET n == Len(bs)
      Bad(i) ==
        \/ bs[i] \in HighBytes \ (LeadBytes \cup ContinuationBytes)
        \/ bs[i] \in LeadBytes /\ (i = n \/ Utf8Pair(bs[i], bs[IF i = n THEN i ELSE i + 1]) = "")
        \/ bs[i] \in ContinuationBytes /\ (i = 1 \/ bs[IF i = 1 THEN i ELSE i - 1] \notin LeadBytes)
      chars == [i \in 1..n |->
                  IF bs[i] \in ContinuationBytes THEN ""
                  ELSE IF bs[i] \in LeadBytes THEN Utf8Pair(bs[i], bs[i + 1])
                  ELSE bs[i]]
  IN IF \E i \in 1..n : Bad(i)
     THEN [ok |-> FALSE, text |-> <<>>]
     ELSE [ok |-> TRUE, text |-> SelectSeq(chars, NotEmpty)]

Utf8Decode(bs) == CHOOSE r \in {Utf8DecodeOf(x) : x \in {bs}} : TRUE

\* bytes.decode('latin-1'): one character per byte, never fails.
Latin1Char(b) ==
  CASE b = "xE9" -> "e-acute"
    [] b = "xC3" -> "A-tilde"
    [] b = "xA9" -> "copyright"
    [] b = "xC2" -> "A-circumflex"
    [] b = "x83" -> "U+0083"
    [] b = "x82" -> "U+0082"
    [] OTHER -> b

Latin1DecodeOf(bs) == [i \in 1..Len(bs) |-> Latin1Char(bs[i])]

Latin1Decode(bs) == CHOOSE r \in {Latin1DecodeOf(x) : x \in {bs}} : TRUE

\* str.encode('utf-8') of one character.
Utf8Char(c) ==
  CASE c = "e-acute" -> <<"xC3", "xA9">>
    [] c = "A-tilde" -> <<"xC3", "x83">>
    [] c = "copyright" -> <<"xC2", "xA9">>
    [] c = "A-circumflex" -> <<"xC3", "x82">>
    [] c = "U+0083" -> <<"xC2", "x83">>
    [] c = "U+0082" -> <<"xC2", "x82">>
    [] OTHER -> <<c>>

Utf8EncodeOf(text) == Flatten([i \in 1..Len(text) |-> Utf8Char(text[i])])

Utf8Encode(text) == CHOOSE r \in {Utf8EncodeOf(x) : x \in {text}} : TRUE

\* Text-mode reading with newline=None: "\r\n" and "\r" both become "\n".
UniversalNewlinesOf(t) ==
  LET marks == [i \in 1..Len(t) |->
                  IF t[i] = "CR" THEN "LF"
                  ELSE IF t[i] = "LF" /\ i > 1 /\ t[IF i > 1 THEN i - 1 ELSE i] = "CR" THEN ""
                  ELSE t[i]]
  IN SelectSeq(marks, NotEmpty)

UniversalNewlines(t) == CHOOSE r \in {UniversalNewlinesOf(x) : x \in {t}} : TRUE

\* ------------------------------------------------------------------- state
VARIABLES
  pc,          \* "start", "walk", "files", "suffix", "try", "latin1", "done", "crashed"
  runNo,       \* which run of the script this is
  tree0,       \* the files of the tree when the first run starts
  present,     \* the files of the tree now (the output file apart)
  outExists,   \* whether arcade_project_complete.txt exists
  bufCap,      \* writes the sink buffers before it flushes to disk
  outfile,     \* the writes made to the sink, in order
  flushed,     \* how many of them are on disk
  file_count,  \* the counter of line 8
  stack,       \* os.walk: the directories still to visit
  files,       \* the listing of the current directory, from the current file on
  console,     \* the per-file lines printed
  total,       \* the total printed by the summary, -1 before it
  prevOut,     \* the bytes of the output file when the previous run ended
  removedAt,   \* per file: where the run was when another process removed it
  removals,    \* files removed by other processes
  sinkFaults   \* writes to the sink that raised

vars == <<pc, runNo, tree0, present, outExists, bufCap, outfile, flushed, file_count,
          stack, files, console, total, prevOut, removedAt, removals, sinkFaults>>

\* ------------------------------------------------------------ the sink
RenderOf(items) == Flatten([i \in 1..Len(items) |-> items[i].text])

\* The text of the output file after the writes `items`.
Render(items) == CHOOSE r \in {RenderOf(x) : x \in {items}} : TRUE

\* One outfile.write(...): the text joins the buffer, which goes to disk when full.
SinkWrite(st, item) ==
  LET o == Append(st.out, item)
  IN [out |-> o, fl |-> IF Len(o) - st.fl >= bufCap THEN Len(o) ELSE st.fl]

RECURSIVE WriteAll(_, _)
WriteAllOf(a) ==
  IF a[2] = <<>> THEN a[1] ELSE WriteAll(SinkWrite(a[1], Head(a[2])), Tail(a[2]))

\* The writes `items`, one after the other, on the sink in state st.
WriteAll(st, items) == CHOOSE r \in {WriteAllOf(x) : x \in {<<st, items>>}} : TRUE

\* The four writes of lines 46-49 (and 60-63) for file f with content c.
BlockItems(f, c) ==
  << [f |-> f, kind |-> "hdr", text |-> <<"My ">> \o RelPath(f) \o <<":", "LF", "LF">>],
     [f |-> f, kind |-> "open", text |-> <<"Q", "LF">>],
     [f |-> f, kind |-> "content", text |-> c],
     [f |-> f, kind |-> "close", text |-> <<"LF", "Q", "LF", "LF">>] >>

\* ------------------------------------------------------------ the file system
Exists(f) == IF f = OutId THEN outExists ELSE f \in present

Readable(f) == IF f = OutId THEN TRUE ELSE Cand[f].readable

\* os.stat(file_path) is let through to the file.
Searchable(f) == IF f = OutId THEN TRUE ELSE Cand[f].searchable

\* The bytes a read of f returns; of the output file, what the sink has flushed.
DiskBytes(f) ==
  IF f = OutId THEN Utf8Encode(Render(SubSeq(outfile, 1, flushed))) ELSE Cand[f].bytes

\* open(file_path, 'r') succeeds.
CanOpen(f) == Exists(f) /\ Readable(f) /\ Searchable(f)

IsPrefix(p, q) == Len(p) <= Len(q) /\ SubSeq(q, 1, Len(p)) = p

DirOrder ==
  << <<"src">>, NodeModules, <<"node_modules", "_backup">>, <<"my_", "node_modules">>,
     <<"locked">> >>

\* The sub-directories os.walk lists in directory d, by name.
ListDirs(d) ==
  LET IsSub(n) == \E f \in tree0 : IsPrefix(d \o <<n>>, Cand[f].dir)
  IN SelectSeq(DirOrder, IsSub)

\* The files os.walk lists in directory d.
ListFiles(d) ==
  LET IsIn(f) == Exists(f) /\ DirOf(f) = d
  IN SelectSeq(ListOrder, IsIn)

\* dirs[:] = [d for d in dirs if d != 'node_modules']
PruneDirs(dirs) ==
  LET Keep(n) == n # NodeModules
  IN SelectSeq(dirs, Keep)

\* file_path.exists() answering True whatever is on disk.
PathExists_Always(f) == TRUE

\* Line 29: file_path.exists(), when os.stat answers or fails with ENOENT.
PathExists(f) == Exists(f)

NextPc(rest) == IF rest = <<>> THEN "walk" ELSE "files"

Cur == Head(files)

\* ------------------------------------------------------------------ Init
Init ==
  /\ tree0 \in {S \in SUBSET CandIds : Cardinality(S) <= MaxFiles}
  /\ present = tree0
  /\ outExists = FALSE
  /\ bufCap \in 1..MaxBuf
  /\ pc = "start"
  /\ runNo = 1
  /\ outfile = <<>>
  /\ flushed = 0
  /\ file_count = 0
  /\ stack = <<>>
  /\ files = <<>>
  /\ console = <<>>
  /\ total = -1
  /\ prevOut = <<>>
  /\ removedAt = [f \in CandIds |-> "no"]
  /\ removals = 0
  /\ sinkFaults = 0

\* ---------------------------------------------------------------- actions
\* open(output_file, 'a'): what is there stays.
OpenSink_Append == outfile

\* open(output_file, 'w', encoding='utf-8'): the file is created or truncated.
OpenSink == <<>>

\* Lines 7-13: the counter, the sink, the walk generator.
Open ==
  /\ pc = "start"
  /\ outfile' = OpenSink
  /\ flushed' = Len(outfile')
  /\ outExists' = TRUE
  /\ file_count' = 0
  /\ stack' = << <<>> >>
  /\ files' = <<>>
  /\ console' = <<>>
  /\ total' = -1
  /\ removedAt' = [f \in CandIds |-> "no"]
  /\ pc' = "walk"
  /\ UNCHANGED <<runNo, tree0, present, bufCap, prevOut, removals, sinkFaults>>

\* Lines 13-19: os.walk yields the next directory; the node_modules tests.
WalkNext ==
  /\ pc = "walk"
  /\ stack # <<>>
  /\ LET d == Head(stack)
         dirs == ListDirs(d)
         Below(ns) == [i \in 1..Len(ns) |-> d \o <<ns[i]>>]
     IN IF NodeModulesInRoot(d)
        THEN /\ stack' = Below(dirs) \o Tail(stack)
             /\ files' = <<>>
             /\ pc' = "walk"
        ELSE /\ stack' = Below(PruneDirs(dirs)) \o Tail(stack)
             /\ files' = ListFiles(d)
             /\ pc' = NextPc(files')
  /\ UNCHANGED <<runNo, tree0, present, outExists, bufCap, outfile, flushed, file_count,
                 console, total, prevOut, removedAt, removals, sinkFaults>>

\* Lines 21-33: the package-lock.json test and the existence test.  On a file that
\* os.stat may not reach (EACCES), Path.exists() raises PermissionError up to
\* Python 3.12 and answers False from 3.13 on; line 29 is outside the try, so the
\* exception leaves the loops and the with block, which closes the sink.
FilterFile ==
  /\ pc = "files"
  /\ IF NameOf(Cur) = PackageLock
     THEN /\ files' = Tail(files)
          /\ pc' = NextPc(files')
          /\ flushed' = flushed
     ELSE IF ~Searchable(Cur)
     THEN \/ /\ files' = files
             /\ pc' = "crashed"
             /\ flushed' = Len(outfile)
          \/ /\ files' = Tail(files)
             /\ pc' = NextPc(files')
             /\ flushed' = flushed
     ELSE IF ~PathExists(Cur)
     THEN /\ files' = Tail(files)
          /\ pc' = NextPc(files')
          /\ flushed' = flushed
     ELSE /\ files' = files
          /\ pc' = "suffix"
          /\ flushed' = flushed
  /\ UNCHANGED <<runNo, tree0, present, outExists, bufCap, outfile, file_count,
                 stack, console, total, prevOut, removedAt, removals, sinkFaults>>

\* Lines 35-38: the suffix test.
SuffixCheck ==
  /\ pc = "suffix"
  /\ IF Suffix(NameOf(Cur)) \in BinarySuffixes
     THEN /\ console' = Append(console, [kind |-> "binary", f |-> Cur])
          /\ files' = Tail(files)
          /\ pc' = NextPc(files')
     ELSE /\ console' = console
          /\ files' = files
          /\ pc' = "try"
  /\ UNCHANGED <<runNo, tree0, present, outExists, bufCap, outfile, flushed, file_count,
                 stack, total, prevOut, removedAt, removals, sinkFaults>>

\* Lines 69-70: except Exception as e: print(f"Error reading ...").
ExceptException(f) ==
  /\ console' = Append(console, [kind |-> "error", f |-> f])
  /\ files' = Tail(files)
  /\ pc' = NextPc(files')

\* Lines 66-68: except: print(f"Skipping unreadable file: ...").
ExceptBare(f) ==
  /\ console' = Append(console, [kind |-> "unreadable", f |-> f])
  /\ files' = Tail(files)
  /\ pc' = NextPc(files')

\* The first k of the four writes of a block; the counter and the line when all four
\* are made (lines 46-52, 60-65).
WriteBlock(f, c, k, line) ==
  \E st \in {WriteAll([out |-> outfile, fl |-> flushed], SubSeq(BlockItems(f, c), 1, k))} :
     /\ outfile' = st.out
     /\ flushed' = st.fl
     /\ IF k = 4
        THEN /\ file_count' = file_count + 1
             /\ console' = Append(console, [kind |-> line, f |-> f])
             /\ files' = Tail(files)
             /\ pc' = NextPc(files')
             /\ sinkFaults' = sinkFaults
        ELSE /\ file_count' = file_count
             /\ sinkFaults' = sinkFaults + 1
             /\ IF line = "added" THEN ExceptException(f) ELSE ExceptBare(f)

\* Lines 40-54, 69-70: the UTF-8 read and the block.
TryUtf8 ==
  /\ pc = "try"
  /\ IF ~CanOpen(Cur)
     THEN /\ ExceptException(Cur)
          /\ UNCHANGED <<outfile, flushed, file_count, sinkFaults>>
     ELSE \E dec \in {Utf8Decode(DiskBytes(Cur))} :
            IF ~dec.ok
            THEN /\ pc' = "latin1"
                 /\ UNCHANGED <<outfile, flushed, file_count, sinkFaults, console, files>>
            ELSE \E k \in 0..4, content \in {UniversalNewlines(dec.text)} :
                   /\ k < 4 => sinkFaults < MaxSinkFaults
                   /\ WriteBlock(Cur, content, k, "added")
  /\ UNCHANGED <<runNo, tree0, present, outExists, bufCap, stack, total, prevOut,
                 removedAt, removals>>

\* Lines 55-68: the Latin-1 retry and the block.
TryLatin1 ==
  /\ pc = "latin1"
  /\ IF ~CanOpen(Cur)
     THEN /\ ExceptBare(Cur)
          /\ UNCHANGED <<outfile, flushed, file_count, sinkFaults>>
     ELSE \E k \in 0..4, content \in {UniversalNewlines(Latin1Decode(DiskBytes(Cur)))} :
            /\ k < 4 => sinkFaults < MaxSinkFaults
            /\ WriteBlock(Cur, content, k, "latin1")
  /\ UNCHANGED <<runNo, tree0, present, outExists, bufCap, stack, total, prevOut,
                 removedAt, removals>>

\* Lines 10, 72-73: the walk is exhausted, the with block closes the sink, the summary.
Finish ==
  /\ pc = "walk"
  /\ stack = <<>>
  /\ flushed' = Len(outfile)
  /\ total' = file_count
  /\ pc' = "done"
  /\ UNCHANGED <<runNo, tree0, present, outExists, bufCap, outfile, file_count, stack,
                 files, console, prevOut, removedAt, removals, sinkFaults>>

\* Lines 85-87: the script is started again in the same working directory.  Reruns are
\* explored after the runs that nothing disturbed.
Rerun ==
  /\ pc = "done"
  /\ runNo < MaxRuns
  /\ removals = 0
  /\ sinkFaults = 0
  /\ runNo' = runNo + 1
  /\ prevOut' = Utf8Encode(Render(outfile))
  /\ pc' = "start"
  /\ UNCHANGED <<tree0, present, outExists, bufCap, outfile, flushed, file_count, stack,
                 files, console, total, removedAt, removals, sinkFaults>>

\* Where the run is with respect to file f, listed in the current directory.
Phase(f) ==
  IF pc \notin {"files", "suffix", "try", "latin1"} \/ f \notin Range(files) THEN "no"
  ELSE IF pc = "files" \/ f # Cur THEN "precheck"
  ELSE IF pc = "latin1" THEN "prelatin"
  ELSE "preopen"

\* Another process removes a file of the tree that the walk has listed and the run
\* has not yet dealt with.
Remove ==
  /\ removals < MaxRemovals
  /\ \E f \in present :
       /\ Phase(f) # "no"
       /\ present' = present \ {f}
       /\ removedAt' = [removedAt EXCEPT ![f] = Phase(f)]
  /\ removals' = removals + 1
  /\ UNCHANGED <<pc, runNo, tree0, outExists, bufCap, outfile, flushed, file_count, stack,
                 files, console, total, prevOut, sinkFaults>>

RunStep ==
  \/ Open
  \/ WalkNext
  \/ FilterFile
  \/ SuffixCheck
  \/ TryUtf8
  \/ TryLatin1
  \/ Finish
  \/ Rerun

Next == RunStep \/ Remove

Spec == Init /\ [][Next]_vars

\* ------------------------------------------------- vocabulary of the claims
\* No other process touched the tree and no write to the sink raised.
Undisturbed == removals = 0 /\ sinkFaults = 0

\* f lies under a directory whose name is exactly node_modules.
UnderNodeModulesDir(f) == \E i \in 1..Len(DirOf(f)) : DirOf(f)[i] = <<"node_modules">>

ExcludedExtensions == {".png", ".jpg", ".jpeg", ".gif", ".ico", ".pem"}

HasExcludedExtension(f) ==
  Len(NameOf(f)) >= 2 /\ NameOf(f)[Len(NameOf(f))] \in ExcludedExtensions

\* f is excluded by none of the three rules.
Eligible(f) ==
  /\ ~UnderNodeModulesDir(f)
  /\ NameOf(f) # <<"package-lock", ".json">>
  /\ ~HasExcludedExtension(f)

\* The positions of the output where a complete block of f starts.
BlockStarts(f) ==
  {i \in 1..Len(outfile) :
     /\ i + 3 <= Len(outfile)
     /\ \A j \in 0..3 : outfile[i + j].f = f
     /\ outfile[i].kind = "hdr"
     /\ outfile[i + 1].kind = "open"
     /\ outfile[i + 2].kind = "content"
     /\ outfile[i + 3].kind = "close"}

NoItems(f) == \A i \in 1..Len(outfile) : outfile[i].f # f

Lines(f, kinds) == {i \in 1..Len(console) : console[i].f = f /\ console[i].kind \in kinds}

AllKinds == {"binary", "added", "latin1", "unreadable", "error"}

Headers == {i \in 1..Len(outfile) : outfile[i].kind = "hdr"}

\* ------------------------------------------------------------------ claims
\* C1 (as stated): when a run is complete, every file that no rule excludes and that
\* reads as text has exactly one block, whose content is the file's content as it is
\* then; the output file itself included.
C1_EveryEligibleFileVerbatim ==
  (pc = "done" /\ Undisturbed) =>
    \A f \in FileIds :
      (Exists(f) /\ Eligible(f) /\ Readable(f) /\ Utf8Decode(DiskBytes(f)).ok) =>
        /\ Cardinality(BlockStarts(f)) = 1
        /\ \A i \in BlockStarts(f) : outfile[i + 2].text = Utf8Decode(DiskBytes(f)).text

\* C2: in every reachable state nothing in the output belongs to a file under a
\* directory named node_modules, to package-lock.json, or to a file with one of the
\* six excluded extensions.
C2_NoExcludedFileInOutput == \A i \in 1..Len(outfile) : Eligible(outfile[i].f)

\* C2 witness: a run is complete over a tree that holds an excluded file, and the
\* output holds a block of another file of the tree.
C2_Witness ==
  /\ pc = "done"
  /\ \E f \in present : ~Eligible(f)
  /\ \E g \in present : BlockStarts(g) # {}

\* C3 (as stated): only a directory named exactly node_modules hides its files; an
\* eligible, readable file anywhere else has a block when the run is complete.
C3_FullNameMatchOnly ==
  (pc = "done" /\ Undisturbed) =>
    \A f \in present : (Eligible(f) /\ Readable(f)) => BlockStarts(f) # {}

\* C4 (as stated): a run that starts in an empty root ends with an output of zero
\* blocks and a summary of 0 files.
C4_EmptyRootZeroBlocks ==
  (pc = "done" /\ runNo = 1 /\ tree0 = {} /\ Undisturbed) =>
    (outExists /\ Headers = {} /\ total = 0)

\* C5: a run that follows a complete run, nothing else having touched the tree or
\* the sink, leaves the same bytes in the output file as the run before it.
C5_SecondRunSameBytes ==
  (pc = "done" /\ runNo >= 2 /\ Undisturbed) => Utf8Encode(Render(outfile)) = prevOut

\* C5 witness: the second run is complete, and its block of the output file holds
\* text the sink had already flushed when the file was read.
C5_Witness ==
  /\ pc = "done"
  /\ runNo = 2
  /\ Undisturbed
  /\ \E i \in BlockStarts(OutId) : outfile[i + 2].text # <<>>

\* C6 (as stated): once the sink is open no failure on a single file ends the run:
\* until it is Done, with the summary printed and the sink closed, the run has a
\* next step to take.
C6_NoFileFailureEndsRun ==
  /\ (pc # "start" /\ pc # "done") => ENABLED RunStep
  /\ pc = "done" => (total >= 0 /\ flushed = Len(outfile))

\* C7 (as stated): an eligible file that is not valid UTF-8 has exactly one block, the
\* Latin-1 decoding of its bytes, one "Added (latin-1)" line, and nothing else of it
\* in the output.
C7_Latin1BlockIsDecodedBytes ==
  (pc = "done" /\ Undisturbed) =>
    \A f \in present :
      (Eligible(f) /\ Readable(f) /\ ~Utf8Decode(Cand[f].bytes).ok) =>
        /\ Cardinality(BlockStarts(f)) = 1
        /\ \A i \in BlockStarts(f) : outfile[i + 2].text = Latin1Decode(Cand[f].bytes)
        /\ Cardinality({i \in 1..Len(outfile) : outfile[i].f = f}) = 4
        /\ Cardinality(Lines(f, {"latin1"})) = 1
        /\ Lines(f, AllKinds \ {"latin1"}) = {}

\* C8 (as stated): between two files the counter equals the number of block headers
\* written so far, and the summary prints that number.
C8_CountEqualsHeaders ==
  /\ pc \in {"walk", "files", "done"} => file_count = Cardinality(Headers)
  /\ pc = "done" => total = Cardinality(Headers)

\* C9 (as stated): a listed file removed before its content is read leaves no block
\* and no console line, wherever the removal falls.
C9_RemovedFileIsSilent ==
  \A f \in CandIds :
    removedAt[f] \in {"precheck", "preopen"} => (NoItems(f) /\ Lines(f, AllKinds) = {})

\* C9 (amended): a listed file removed before its existence test leaves no block and
\* no console line; one removed after that test and before it is opened leaves no
\* block and no "Added" line, but a "Skipping binary file" or an "Error reading" line.
C9_SilentOnlyBeforeExistsTest ==
  \A f \in CandIds :
    /\ removedAt[f] = "precheck" => (NoItems(f) /\ Lines(f, AllKinds) = {})
    /\ removedAt[f] = "preopen" =>
         /\ NoItems(f)
         /\ Lines(f, {"added", "latin1"}) = {}
         /\ f \notin Range(files) => Lines(f, {"binary", "error"}) # {}

\* C9 witness: a file was removed while it waited in the listing, its turn has
\* passed, and the run is complete.
C9_Witness ==
  /\ pc = "done"
  /\ \E f \in CandIds : removedAt[f] = "precheck" /\ f \in tree0 /\ Eligible(f)

\* C10 (as stated): a file with an error line has nothing in the output, and every
\* header in the output starts a complete block.
C10_ErrorLineMeansNothingWritten ==
  /\ \A i \in 1..Len(console) :
       console[i].kind \in {"error", "unreadable"} => NoItems(console[i].f)
  /\ pc \in {"walk", "files", "done"} =>
       \A i \in Headers : i \in BlockStarts(outfile[i].f)

====
